---- MODULE Spec2Model ----
(***************************************************************************)
(* Model of yoloApp2/djangoApp: the YOLOv9 inference engine               *)
(* (services/yolo_inference.py) driven by concurrent request handlers     *)
(* (views.run_inference), the detection parser and the dataset exporter   *)
(* (views._export_dataset_zip).                                           *)
(***************************************************************************)
EXTENDS Integers, Sequences, FiniteSets, TLC

\* ------------------------------------------------------------------ bounds
NumThreads == 2
MaxRuns == 2

Threads == 1..NumThreads
EngineIds == 1..NumThreads

\* ------------------------------------------------------------- input data
\* Uploaded model files.  0 is the empty upload; the others are checkpoints.
EmptyBytes == 0
Checkpoints == {1, 2, 3, 4}
ModelBytes == {EmptyBytes} \cup Checkpoints

\* Parameter names of the live model built by create_model.
ParamKeys == {1, 2}

\* Offset standing for the "model.model." key prefix of nested state dicts.
KeyPrefix == 10

\* What torch.load returns for each upload:
\*   loads  - torch.load succeeds
\*   shape  - "flat" parameter map, map nested under "state_dict" (keys
\*            carry the prefix) or map nested under "model"
\*   params - the parameter map as stored (every tensor carries the id of
\*            its checkpoint)
\*   bad    - stored names whose tensor shape does not fit the live model
\* A checkpoint whose "state_dict" has a key that is not a string.
IntKeysCheckpoint == 5

CheckpointOf(b) ==
    CASE b = 1 -> [loads |-> TRUE, shape |-> "flat", string_keys |-> TRUE,
                   params |-> [k \in {1, 2} |-> b], bad |-> {}]
      [] b = 2 -> [loads |-> TRUE, shape |-> "state_dict", string_keys |-> TRUE,
                   params |-> [k \in {KeyPrefix + 1, KeyPrefix + 3} |-> b], bad |-> {}]
      [] b = 4 -> [loads |-> TRUE, shape |-> "model", string_keys |-> TRUE,
                   params |-> [k \in {1, 2} |-> b], bad |-> {2}]
      [] b = IntKeysCheckpoint ->
                  [loads |-> TRUE, shape |-> "state_dict", string_keys |-> FALSE,
                   params |-> [k \in {KeyPrefix + 1} |-> b], bad |-> {}]
      [] OTHER -> [loads |-> FALSE, shape |-> "flat", string_keys |-> TRUE,
                   params |-> [k \in {} |-> b], bad |-> {}]

\* hashlib.sha1(weight_bytes).hexdigest(): a digest, distinct per content.
Hash(b) == (b * 37 + 11) % 101
NoHash == -1

\* Value of a parameter of a freshly constructed model.
InitParam == -1
FreshModel == [k \in ParamKeys |-> InitParam]
NoModel == [k \in ParamKeys |-> -2]

\* Batches handed to _predict: the kinds of image each payload holds.
ImageLists == {<<>>, <<"ok">>, <<"ok", "ok">>, <<"bad">>, <<"ok", "bad">>}

\* Steps of _ensure_bootstrapped at which the environment can fail.
FailPoints == {"pillow", "torch", "hydra_old", "yolo", "config_dir",
               "nmsconfig", "compose", "create_model"}

VARIABLES
    ENGINE,               \* module global _ENGINE (0 = None)
    nEngines,             \* engines constructed so far
    lock,                 \* _lock owner per engine (0 = free)
    bootstrapped,         \* _bootstrapped
    handles,              \* _torch, _compose, ... _draw_bboxes are set
    cfg,                  \* _cfg is set
    device,               \* _device is set
    model,                \* _model parameters
    class_names,          \* _class_names
    current_weight_hash,  \* _current_weight_hash
    pc,                   \* position of each request handler
    eng,                  \* handler's local `engine`
    bytes,                \* handler's model_bytes
    outcome,              \* what run() returned or raised
    entry,                \* weights and hash when run() took the lock
    apply_ran,            \* this run's _load_weights went past the hash test
    setups,               \* completed bootstraps in the process
    runs,                 \* requests started
    tensor,               \* _parse_detections: rows of the detection tensor
    image_size,           \* _parse_detections: <<width, height>>
    parsed,               \* _parse_detections: its result
    names_override,       \* run_inference: class names sent with the request
    post_data,            \* _build_inference_settings: request.POST["img_size"]
    settings,             \* _build_inference_settings: what it returned or raised
    payloads,             \* _predict: images
    engine_ready,         \* _predict: the engine was bootstrapped before the call
    predicted,            \* _predict: what it returned or raised
    weight_bytes,         \* _load_weights: weight_bytes of the last call
    model_label,          \* _load_weights: label of the last call
    load_result,          \* _load_weights: how the last call ended
    load_calls,           \* _load_weights: calls made
    dataset_slug,         \* _export_dataset_zip: dataset_slug
    payload_classes,      \* _export_dataset_zip: payload["classes"]
    images,               \* _export_dataset_zip: payload["images"]
    next_image,           \* _export_dataset_zip: position of the image loop
    used_names,           \* _export_dataset_zip: used_names
    archive,              \* _export_dataset_zip: entries written to the zip
    response,             \* _export_dataset_zip: what the view returned
    body                  \* _export_dataset_zip: archive entries in the response

vars == <<ENGINE, nEngines, lock, bootstrapped, handles, cfg, device, model,
          class_names, current_weight_hash, pc, eng, bytes, outcome, entry,
          apply_ran, setups, runs, tensor, image_size, parsed, dataset_slug, images,
          next_image, used_names, archive, response, payload_classes, body,
          names_override, post_data, settings, payloads, engine_ready, predicted,
          weight_bytes, model_label, load_result, load_calls>>

parseVars == <<tensor, image_size, parsed, names_override>>
settingsVars == <<post_data, settings>>
predictVars == <<payloads, engine_ready, predicted>>
loadVars == <<weight_bytes, model_label, load_result, load_calls>>
exportVars == <<dataset_slug, payload_classes, images, next_image, used_names,
               archive, response, body>>
requestVars == <<ENGINE, nEngines, lock, bootstrapped, handles, cfg, device,
                 model, class_names, current_weight_hash, pc, eng, bytes,
                 outcome, entry, apply_ran, setups, runs>>

engineVars == <<lock, bootstrapped, handles, cfg, device, model, class_names,
                current_weight_hash>>

Taxonomy == <<"person", "car">>
NoEntry == [hash |-> NoHash, model |-> NoModel]

InitRequests ==
    /\ ENGINE = 0
    /\ nEngines = 0
    /\ lock = [e \in EngineIds |-> 0]
    /\ bootstrapped = [e \in EngineIds |-> FALSE]
    /\ handles = [e \in EngineIds |-> FALSE]
    /\ cfg = [e \in EngineIds |-> FALSE]
    /\ device = [e \in EngineIds |-> FALSE]
    /\ model = [e \in EngineIds |-> NoModel]
    /\ class_names = [e \in EngineIds |-> <<>>]
    /\ current_weight_hash = [e \in EngineIds |-> NoHash]
    /\ pc = [t \in Threads |-> "idle"]
    /\ eng = [t \in Threads |-> 0]
    /\ bytes = [t \in Threads |-> EmptyBytes]
    /\ outcome = [t \in Threads |-> "none"]
    /\ entry = [t \in Threads |-> NoEntry]
    /\ apply_ran = [t \in Threads |-> FALSE]
    /\ setups = 0
    /\ runs = 0

NotParsed == [error |-> "pending", detections |-> <<>>]

InitParseIdle ==
    /\ tensor = <<>>
    /\ image_size = <<1, 1>>
    /\ parsed = NotParsed
    /\ names_override = <<>>

NoSettings == [error |-> "pending", img_size |-> 0]

InitSettingsIdle ==
    /\ post_data = [kind |-> "absent", value |-> 0]
    /\ settings = NoSettings

NotPredicted == [error |-> "pending", results |-> <<>>]

InitPredictIdle ==
    /\ payloads = <<>>
    /\ engine_ready = FALSE
    /\ predicted = NotPredicted

NotLoaded == [kind |-> "pending", label |-> "", cause |-> FALSE]

InitLoadIdle ==
    /\ weight_bytes = EmptyBytes
    /\ model_label = ""
    /\ load_result = NotLoaded
    /\ load_calls = 0

InitExportIdle ==
    /\ dataset_slug = "train"
    /\ images = <<>>
    /\ next_image = 1
    /\ used_names = {}
    /\ archive = <<>>
    /\ response = "idle"
    /\ payload_classes = <<>>
    /\ body = <<>>

Init ==
    /\ InitRequests /\ InitParseIdle /\ InitExportIdle
    /\ InitSettingsIdle /\ InitPredictIdle /\ InitLoadIdle

\* views.run_inference up to the call of get_engine(): the upload is read.
run_inference(t) ==
    /\ pc[t] = "idle"
    /\ UNCHANGED <<parseVars, exportVars, settingsVars, predictVars, loadVars>>
    /\ runs < MaxRuns
    /\ \E b \in ModelBytes : bytes' = [bytes EXCEPT ![t] = b]
    /\ pc' = [pc EXCEPT ![t] = "get_engine"]
    /\ runs' = runs + 1
    /\ UNCHANGED <<ENGINE, nEngines, engineVars, eng, outcome, entry,
                   apply_ran, setups>>

\* get_engine: `if _ENGINE is None`
get_engine(t) ==
    /\ pc[t] = "get_engine"
    /\ UNCHANGED <<parseVars, exportVars, settingsVars, predictVars, loadVars>>
    /\ pc' = [pc EXCEPT ![t] = IF ENGINE = 0 THEN "construct" ELSE "get_return"]
    /\ UNCHANGED <<ENGINE, nEngines, engineVars, eng, bytes, outcome, entry,
                   apply_ran, setups, runs>>

\* get_engine: `_ENGINE = YoloV9InferenceEngine()` (__init__ and the store)
construct(t) ==
    /\ pc[t] = "construct"
    /\ UNCHANGED <<parseVars, exportVars, settingsVars, predictVars, loadVars>>
    /\ nEngines < NumThreads
    /\ LET e == nEngines + 1 IN
        /\ nEngines' = e
        /\ ENGINE' = e
        /\ lock' = [lock EXCEPT ![e] = 0]
        /\ bootstrapped' = [bootstrapped EXCEPT ![e] = FALSE]
        /\ handles' = [handles EXCEPT ![e] = FALSE]
        /\ cfg' = [cfg EXCEPT ![e] = FALSE]
        /\ device' = [device EXCEPT ![e] = FALSE]
        /\ model' = [model EXCEPT ![e] = NoModel]
        /\ class_names' = [class_names EXCEPT ![e] = <<>>]
        /\ current_weight_hash' = [current_weight_hash EXCEPT ![e] = NoHash]
    /\ pc' = [pc EXCEPT ![t] = "get_return"]
    /\ UNCHANGED <<eng, bytes, outcome, entry, apply_ran, setups, runs>>

\* get_engine: `return _ENGINE` (reads the global again)
get_return(t) ==
    /\ pc[t] = "get_return"
    /\ UNCHANGED <<parseVars, exportVars, settingsVars, predictVars, loadVars>>
    /\ eng' = [eng EXCEPT ![t] = ENGINE]
    /\ pc' = [pc EXCEPT ![t] = "acquire"]
    /\ UNCHANGED <<ENGINE, nEngines, engineVars, bytes, outcome, entry,
                   apply_ran, setups, runs>>

\* acquire without waiting for the owner to leave
acquire_unlocked(t) ==
    /\ pc[t] = "acquire"
    /\ UNCHANGED <<parseVars, exportVars, settingsVars, predictVars, loadVars>>
    /\ lock' = [lock EXCEPT ![eng[t]] = t]
    /\ entry' = [entry EXCEPT ![t] = [hash |-> current_weight_hash[eng[t]],
                                      model |-> model[eng[t]]]]
    /\ pc' = [pc EXCEPT ![t] = "ensure"]
    /\ UNCHANGED <<ENGINE, nEngines, bootstrapped, handles, cfg, device, model,
                   class_names, current_weight_hash, eng, bytes, outcome,
                   apply_ran, setups, runs>>

\* run: `with self._lock:` entry
acquire(t) ==
    /\ pc[t] = "acquire"
    /\ UNCHANGED <<parseVars, exportVars, settingsVars, predictVars, loadVars>>
    /\ lock[eng[t]] = 0
    /\ lock' = [lock EXCEPT ![eng[t]] = t]
    /\ entry' = [entry EXCEPT ![t] = [hash |-> current_weight_hash[eng[t]],
                                      model |-> model[eng[t]]]]
    /\ pc' = [pc EXCEPT ![t] = "ensure"]
    /\ UNCHANGED <<ENGINE, nEngines, bootstrapped, handles, cfg, device, model,
                   class_names, current_weight_hash, eng, bytes, outcome,
                   apply_ran, setups, runs>>

\* _normalize_state_dict: one flat parameter map out of the known shapes.
StripPrefix(k) == IF k > KeyPrefix THEN k - KeyPrefix ELSE k

\* `key.replace(...)` on a key that is not a string raises AttributeError.
normalize_fails(ck) == ck.shape = "state_dict" /\ ~ck.string_keys

normalize_state_dict(ck) ==
    IF ck.shape = "state_dict"
    THEN [k \in {StripPrefix(j) : j \in DOMAIN ck.params} |->
             ck.params[CHOOSE j \in DOMAIN ck.params : StripPrefix(j) = k]]
    ELSE ck.params

\* self._model.load_state_dict(state_dict, strict=False): the names in
\* `applied` are copied into the live model, all others keep their value;
\* names the model does not have are ignored.
load_state_dict(m, sd, applied) ==
    [k \in ParamKeys |-> IF k \in applied /\ k \in DOMAIN sd THEN sd[k] ELSE m[k]]

Raise(t, err) ==
    /\ pc' = [pc EXCEPT ![t] = "release"]
    /\ outcome' = [outcome EXCEPT ![t] = err]

\* _ensure_bootstrapped
ensure_bootstrapped(t) ==
    /\ pc[t] = "ensure"
    /\ UNCHANGED <<parseVars, exportVars, settingsVars, predictVars, loadVars>>
    /\ LET e == eng[t] IN
       IF bootstrapped[e]
       THEN /\ pc' = [pc EXCEPT ![t] = "load"]
            /\ UNCHANGED <<handles, cfg, device, model, class_names,
                           bootstrapped, setups, outcome>>
       ELSE \E f \in FailPoints \cup {"ok"} :
            \/ /\ f \in {"pillow", "torch", "hydra_old", "yolo"}
               /\ Raise(t, "MissingDependencyError")
               /\ UNCHANGED <<handles, cfg, device, model, class_names,
                              bootstrapped, setups>>
            \/ /\ f = "nmsconfig"
               /\ Raise(t, "Exception")
               /\ UNCHANGED <<handles, cfg, device, model, class_names,
                              bootstrapped, setups>>
            \/ /\ f = "config_dir"
               /\ handles' = [handles EXCEPT ![e] = TRUE]
               /\ Raise(t, "MissingDependencyError")
               /\ UNCHANGED <<cfg, device, model, class_names, bootstrapped,
                              setups>>
            \/ /\ f = "compose"
               /\ handles' = [handles EXCEPT ![e] = TRUE]
               /\ Raise(t, "Exception")
               /\ UNCHANGED <<cfg, device, model, class_names, bootstrapped,
                              setups>>
            \/ /\ f = "create_model"
               /\ handles' = [handles EXCEPT ![e] = TRUE]
               /\ cfg' = [cfg EXCEPT ![e] = TRUE]
               /\ device' = [device EXCEPT ![e] = TRUE]
               /\ Raise(t, "Exception")
               /\ UNCHANGED <<model, class_names, bootstrapped, setups>>
            \/ /\ f = "ok"
               /\ handles' = [handles EXCEPT ![e] = TRUE]
               /\ cfg' = [cfg EXCEPT ![e] = TRUE]
               /\ device' = [device EXCEPT ![e] = TRUE]
               /\ model' = [model EXCEPT ![e] = FreshModel]
               /\ class_names' = [class_names EXCEPT ![e] = Taxonomy]
               /\ bootstrapped' = [bootstrapped EXCEPT ![e] = TRUE]
               /\ setups' = setups + 1
               /\ pc' = [pc EXCEPT ![t] = "load"]
               /\ UNCHANGED outcome
    /\ UNCHANGED <<ENGINE, nEngines, lock, current_weight_hash, eng, bytes,
                   entry, apply_ran, runs>>

\* _load_weights: `if self._current_weight_hash == weight_hash: return`
cache_hit_never(cached, weight_hash) == FALSE

cache_hit(cached, weight_hash) == cached = weight_hash

\* _load_weights
load_weights(t) ==
    /\ pc[t] = "load"
    /\ UNCHANGED <<parseVars, exportVars, settingsVars, predictVars, loadVars>>
    /\ LET e == eng[t]
           weight_hash == Hash(bytes[t])
           checkpoint == CheckpointOf(bytes[t])
           state_dict == normalize_state_dict(checkpoint)
           fits == {k \in DOMAIN state_dict :
                       \A j \in checkpoint.bad : StripPrefix(j) # k}
       IN
       IF bytes[t] = EmptyBytes
       THEN /\ Raise(t, "ModelLoadError")
            /\ UNCHANGED <<model, current_weight_hash, apply_ran>>
       ELSE IF cache_hit(current_weight_hash[e], weight_hash)
       THEN /\ pc' = [pc EXCEPT ![t] = "predict"]
            /\ UNCHANGED <<model, current_weight_hash, apply_ran, outcome>>
       ELSE /\ apply_ran' = [apply_ran EXCEPT ![t] = TRUE]
            /\ IF ~checkpoint.loads
               THEN /\ Raise(t, "ModelLoadError")
                    /\ UNCHANGED <<model, current_weight_hash>>
               ELSE IF normalize_fails(checkpoint)
               THEN /\ Raise(t, "AttributeError")
                    /\ UNCHANGED <<model, current_weight_hash>>
               ELSE IF checkpoint.bad # {}
               THEN \E applied \in SUBSET fits :
                    /\ model' = [model EXCEPT
                                   ![e] = load_state_dict(model[e], state_dict, applied)]
                    /\ Raise(t, "ModelLoadError")
                    /\ UNCHANGED current_weight_hash
               ELSE /\ model' = [model EXCEPT
                                   ![e] = load_state_dict(model[e], state_dict, fits)]
                    /\ current_weight_hash' =
                           [current_weight_hash EXCEPT ![e] = weight_hash]
                    /\ pc' = [pc EXCEPT ![t] = "predict"]
                    /\ UNCHANGED outcome
    /\ UNCHANGED <<ENGINE, nEngines, lock, bootstrapped, handles, cfg, device,
                   class_names, eng, bytes, entry, setups, runs>>

\* predict that drops the cached hash when it fails
predict_drops_cache(t) ==
    /\ pc[t] = "predict"
    /\ UNCHANGED <<parseVars, exportVars, settingsVars, predictVars, loadVars>>
    /\ \E batch \in ImageLists :
        /\ outcome' = [outcome EXCEPT ![t] =
              IF batch = <<>> THEN "YoloInferenceError"
              ELSE IF \E i \in 1..Len(batch) : batch[i] = "bad"
                   THEN "ImageDecodeError"
                   ELSE "ok"]
        /\ current_weight_hash' =
              IF batch = <<>> \/ \E i \in 1..Len(batch) : batch[i] = "bad"
              THEN [current_weight_hash EXCEPT ![eng[t]] = NoHash]
              ELSE current_weight_hash
    /\ pc' = [pc EXCEPT ![t] = "release"]
    /\ UNCHANGED <<ENGINE, nEngines, lock, bootstrapped, handles, cfg, device,
                   model, class_names, eng, bytes, entry, apply_ran, setups, runs>>

\* _predict: the batch is rejected when empty, fails on the first payload
\* _load_image cannot decode, and changes no field of the engine.
predict(t) ==
    /\ pc[t] = "predict"
    /\ UNCHANGED <<parseVars, exportVars, settingsVars, predictVars, loadVars>>
    /\ \E batch \in ImageLists :
        outcome' = [outcome EXCEPT ![t] =
            IF batch = <<>> THEN "YoloInferenceError"
            ELSE IF \E i \in 1..Len(batch) : batch[i] = "bad"
                 THEN "ImageDecodeError"
                 ELSE "ok"]
    /\ pc' = [pc EXCEPT ![t] = "release"]
    /\ UNCHANGED <<ENGINE, nEngines, engineVars, eng, bytes, entry, apply_ran,
                   setups, runs>>

\* release that keeps the lock when run() raised
release_on_return_only(t) ==
    /\ pc[t] = "release"
    /\ UNCHANGED <<parseVars, exportVars, settingsVars, predictVars, loadVars>>
    /\ lock' = [lock EXCEPT ![eng[t]] = IF outcome[t] = "ok" THEN 0 ELSE t]
    /\ pc' = [pc EXCEPT ![t] = "idle"]
    /\ eng' = [eng EXCEPT ![t] = 0]
    /\ bytes' = [bytes EXCEPT ![t] = EmptyBytes]
    /\ outcome' = [outcome EXCEPT ![t] = "none"]
    /\ entry' = [entry EXCEPT ![t] = NoEntry]
    /\ apply_ran' = [apply_ran EXCEPT ![t] = FALSE]
    /\ UNCHANGED <<ENGINE, nEngines, bootstrapped, handles, cfg, device, model,
                   class_names, current_weight_hash, setups, runs>>

\* run: leaving `with self._lock:`; the handler builds its response.
release(t) ==
    /\ pc[t] = "release"
    /\ UNCHANGED <<parseVars, exportVars, settingsVars, predictVars, loadVars>>
    /\ lock' = [lock EXCEPT ![eng[t]] = 0]
    /\ pc' = [pc EXCEPT ![t] = "idle"]
    /\ eng' = [eng EXCEPT ![t] = 0]
    /\ bytes' = [bytes EXCEPT ![t] = EmptyBytes]
    /\ outcome' = [outcome EXCEPT ![t] = "none"]
    /\ entry' = [entry EXCEPT ![t] = NoEntry]
    /\ apply_ran' = [apply_ran EXCEPT ![t] = FALSE]
    /\ UNCHANGED <<ENGINE, nEngines, bootstrapped, handles, cfg, device, model,
                   class_names, current_weight_hash, setups, runs>>

Next ==
    \E t \in Threads :
        \/ run_inference(t)
        \/ get_engine(t)
        \/ construct(t)
        \/ get_return(t)
        \/ acquire(t)
        \/ ensure_bootstrapped(t)
        \/ load_weights(t)
        \/ predict(t)
        \/ release(t)

Spec == Init /\ [][Next]_vars

\* A request that runs is scheduled again and again; a request waiting at
\* `with self._lock:` gets the lock if it is free again and again.
Fairness ==
    \A t \in Threads :
        /\ WF_vars(get_engine(t) \/ construct(t) \/ get_return(t)
                       \/ ensure_bootstrapped(t) \/ load_weights(t) \/ predict(t)
                       \/ release(t))
        /\ SF_vars(acquire(t))

SpecFair == Init /\ [][Next]_vars /\ Fairness

\* The exception classes of yolo_inference.py: each kind with its base classes.
Ancestors(kind) ==
    CASE kind = "MissingDependencyError" ->
             {"MissingDependencyError", "YoloInferenceError", "Exception"}
      [] kind = "ModelLoadError" ->
             {"ModelLoadError", "YoloInferenceError", "Exception"}
      [] kind = "ImageDecodeError" ->
             {"ImageDecodeError", "YoloInferenceError", "Exception"}
      [] kind = "YoloInferenceError" -> {"YoloInferenceError", "Exception"}
      [] OTHER -> {"Exception"}

\* The except clauses of run_inference around engine.run(), in their order;
\* error is what the JSON body holds: str(exc) or the fixed text.
ExceptClauses ==
    << [catches |-> "MissingDependencyError", status |-> 503, error |-> "str(exc)"],
       [catches |-> "ImageDecodeError", status |-> 400, error |-> "str(exc)"],
       [catches |-> "ModelLoadError", status |-> 400, error |-> "str(exc)"],
       [catches |-> "YoloInferenceError", status |-> 500, error |-> "str(exc)"],
       [catches |-> "Exception", status |-> 500, error |-> "fixed"] >>

\* run_inference after engine.run(): the first clause that matches answers.
http_response(result) ==
    IF result = "ok" THEN [catches |-> "none", status |-> 200, error |-> "none"]
    ELSE LET matching == {i \in 1..Len(ExceptClauses) :
                             ExceptClauses[i].catches \in Ancestors(result)}
             first == CHOOSE i \in matching : \A k \in matching : i <= k
         IN ExceptClauses[first]

\* ------------------------------------------------------- _parse_detections
MaxDim == 2

Max(a, b) == IF a >= b THEN a ELSE b
Min(a, b) == IF a <= b THEN a ELSE b

\* Raw coordinates the model can emit around an image of at most MaxDim.
Coords == (0 - 1)..(MaxDim + 1)
ClassIds == {0 - 3, 0 - 1, 0, 1, 2}

\* One row of the detection tensor: [class, x1, y1, x2, y2, confidence].
RawRows == {<<c, a, b, x, y, 1>> : c \in ClassIds, a \in Coords, b \in Coords,
                                  x \in Coords, y \in Coords}
ShortRow == <<0, 0, 0, 1, 1>>
Tensors == {<<>>} \cup {<<r>> : r \in RawRows} \cup {<<ShortRow, r>> : r \in RawRows}

\* bbox of one row (det[1..4] of the source are det[2..5] here).
bbox_of(det, width, height) ==
    LET x1 == Max(0, det[2])
        y1 == Max(0, det[3])
        x2 == Min(width, det[4])
        y2 == Min(height, det[5])
    IN [x1 |-> x1, y1 |-> y1, x2 |-> x2, y2 |-> y2,
        width |-> Max(0, x2 - x1), height |-> Max(0, y2 - y1)]

\* `self._class_names[cls_id] if cls_id < len(self._class_names) else
\* f"class_{cls_id}"`; a negative index counts from the end of the list.
class_name_of(names, cls_id) ==
    IF cls_id < Len(names)
    THEN <<names[IF cls_id >= 0 THEN cls_id + 1 ELSE Len(names) + cls_id + 1]>>
    ELSE <<"class_", cls_id>>

\* The list index is out of range: Python raises IndexError.
IndexErrorAt(names, cls_id) == cls_id < 0 - Len(names)

parse_detections(rows, width, height, names) ==
    LET full == SelectSeq(rows, LAMBDA det : Len(det) >= 6) IN
    IF \E i \in 1..Len(full) : IndexErrorAt(names, full[i][1])
    THEN [error |-> "IndexError", detections |-> <<>>]
    ELSE [error |-> "none",
          detections |-> [i \in 1..Len(full) |->
              [class_id |-> full[i][1],
               class_name |-> class_name_of(names, full[i][1]),
               confidence |-> full[i][6],
               bbox |-> bbox_of(full[i], width, height)]]]

InitParse ==
    /\ InitRequests
    /\ InitExportIdle
    /\ InitSettingsIdle
    /\ InitPredictIdle
    /\ InitLoadIdle
    /\ names_override \in {<<>>, <<"dog", "cat">>}
    /\ tensor \in Tensors
    /\ image_size \in (1..MaxDim) \X (1..MaxDim)
    /\ parsed = NotParsed

\* _predict: `parsed = self._parse_detections(detections, width, height)`
parse(names) ==
    /\ parsed.error = "pending"
    /\ parsed' = parse_detections(tensor, image_size[1], image_size[2], names)
    /\ UNCHANGED <<requestVars, exportVars, settingsVars, predictVars, loadVars, tensor,
                   image_size, names_override>>

NextParse == parse(Taxonomy)

SpecParse == InitParse /\ [][NextParse]_vars

\* ------------------------------------------------------ _export_dataset_zip
MaxImages == 3

\* File names are sequences of tokens: "cat.png" is <<"cat", ".", "png">>.
Names == { <<"cat", ".", "png">>, <<"cat", ".", "jpg">>,
           <<"cat", "_", "1", ".", "png">>, <<"cat">>, <<>> }

\* payload["classes"]
\* (a label is a sequence of tokens, " " standing for white space)
Classes == << [id |-> "c1", label |-> <<"dog">>], [id |-> "c2", label |-> <<"cat">>] >>

ClassLists ==
    { <<>>,
      << [id |-> "c1", label |-> <<"dog">>] >>,
      Classes,
      << [id |-> "c1", label |-> <<" ", "dog", " ">>], [id |-> "c2", label |-> <<>>],
         [id |-> "c3", label |-> <<" ">>] >> }

\* Boxes in percent of the image; `numeric` is FALSE when float() fails.
GoodBox == [classId |-> "c1", x |-> 10, y |-> 20, w |-> 30, h |-> 40, numeric |-> TRUE]
FlatBox == [classId |-> "c2", x |-> 10, y |-> 20, w |-> 0, h |-> 40, numeric |-> TRUE]

\* Box fields around and beyond the 0-100 percent range.
BoxXs == {0 - 50, 0, 10, 95, 150}
BoxYs == {0 - 50, 20, 150}
BoxWs == {0 - 5, 0, 30, 100, 250}
BoxHs == {0, 40, 250}

Boxes ==
    {[classId |-> c, x |-> x, y |-> y, w |-> w, h |-> h, numeric |-> TRUE] :
        c \in {"c1", "c2", "zz"}, x \in BoxXs, y \in BoxYs, w \in BoxWs, h \in BoxHs}
    \cup {[classId |-> c, x |-> 10, y |-> 20, w |-> 30, h |-> 40, numeric |-> FALSE] :
        c \in {"c1", "zz"}}

BoxLists ==
    {<<b>> : b \in Boxes} \cup {<<b, GoodBox>> : b \in Boxes}
    \cup {<<GoodBox, b>> : b \in Boxes}

\* Payloads of one image that carries the boxes of a box list.
BoxedImages ==
    {<< [name |-> <<"cat", ".", "png">>, src |-> "png", boxes |-> bs] >> : bs \in BoxLists}

\* Images of a payload: name, kind of the `src` data URL ("png" and "jpeg"
\* decode, "nocomma" has no comma, "padding" is refused by b64decode), boxes.
ImageInputs ==
    { [name |-> <<"cat", ".", "png">>, src |-> "png", boxes |-> <<GoodBox>>],
      [name |-> <<"cat", ".", "png">>, src |-> "png", boxes |-> <<>>],
      [name |-> <<"cat", ".", "jpg">>, src |-> "jpeg", boxes |-> <<FlatBox, GoodBox>>],
      [name |-> <<"cat", "_", "1", ".", "png">>, src |-> "png", boxes |-> <<>>],
      [name |-> <<"cat">>, src |-> "jpeg", boxes |-> <<>>],
      [name |-> <<"cat">>, src |-> "png", boxes |-> <<>>],
      [name |-> <<>>, src |-> "png", boxes |-> <<>>],
      [name |-> <<"cat", ".", "png">>, src |-> "nocomma", boxes |-> <<>>],
      [name |-> <<"cat", ".", "jpg">>, src |-> "padding", boxes |-> <<>>] }

RECURSIVE ListsUpTo(_, _)
ListsUpTo(S, n) ==
    IF n = 0 THEN {<<>>}
    ELSE LET shorter == ListsUpTo(S, n - 1) IN
         shorter \cup {Append(l, x) : l \in {m \in shorter : Len(m) = n - 1}, x \in S}

\* pathlib: position of the dot that starts the suffix (0 = no suffix); a
\* leading or a trailing dot starts none.
SuffixDot(name) ==
    LET dots == {i \in 2..(Len(name) - 1) : name[i] = "."} IN
    IF dots = {} \/ name[Len(name)] = "." THEN 0
    ELSE CHOOSE i \in dots : \A j \in dots : j <= i

path_stem(name) ==
    IF SuffixDot(name) = 0 THEN name ELSE SubSeq(name, 1, SuffixDot(name) - 1)

path_suffix(name) ==
    IF SuffixDot(name) = 0 THEN <<>> ELSE SubSeq(name, SuffixDot(name), Len(name))

\* str(counter)
Digit(n) == <<"0", "1", "2", "3", "4", "5", "6", "7", "8", "9">>[n + 1]

RECURSIVE ToStr(_)
ToStr(n) == IF n < 10 THEN <<Digit(n)>> ELSE ToStr(n \div 10) \o <<Digit(n % 10)>>

\* unique_filename: the `while candidate in used_names` loop.
RECURSIVE first_unused(_, _, _, _, _)
first_unused(stem, suffix, candidate, counter, used) ==
    IF candidate \in used
    THEN first_unused(stem, suffix, stem \o <<"_">> \o ToStr(counter) \o suffix,
                      counter + 1, used)
    ELSE candidate

\* unique_filename that tries the suffix _1 once, without looking again
unique_filename_once(original_name, fallback_ext, used) ==
    LET path == IF original_name = <<>> THEN <<"image">> ELSE original_name
        stem == IF path_stem(path) = <<>> THEN <<"image">> ELSE path_stem(path)
        suffix == IF path_suffix(path) = <<>> THEN fallback_ext ELSE path_suffix(path)
    IN IF stem \o suffix \in used
       THEN stem \o <<"_">> \o ToStr(1) \o suffix
       ELSE stem \o suffix

unique_filename(original_name, fallback_ext, used) ==
    LET path == IF original_name = <<>> THEN <<"image">> ELSE original_name
        stem == IF path_stem(path) = <<>> THEN <<"image">> ELSE path_stem(path)
        suffix == IF path_suffix(path) = <<>> THEN fallback_ext ELSE path_suffix(path)
    IN first_unused(stem, suffix, stem \o suffix, 1, used)

\* class_index = {cls["id"]: idx for idx, cls in enumerate(classes)};
\* the result is the index, or -1 for class_index.get(...) is None.
class_index(classes, class_id) ==
    LET at == {i \in 1..Len(classes) : classes[i].id = class_id} IN
    IF at = {} THEN 0 - 1 ELSE (CHOOSE i \in at : \A j \in at : j <= i) - 1

\* clamp that forgets the lower bound
clamp01_upper(v) == Min(1000000, v)

\* max(0.0, min(1.0, v)) on values held in millionths (the :.6f of the line).
clamp01(v) == Max(0, Min(1000000, v))

\* label_line that writes the top-left corner in place of the centre
label_line_corner(classes, box) ==
    IF class_index(classes, box.classId) < 0 THEN <<>>
    ELSE IF ~box.numeric THEN <<>>
    ELSE IF box.w <= 0 \/ box.h <= 0 THEN <<>>
    ELSE << [class_id |-> class_index(classes, box.classId),
             center_x |-> clamp01(box.x * 10000),
             center_y |-> clamp01(box.y * 10000),
             width |-> clamp01(box.w * 10000),
             height |-> clamp01(box.h * 10000)] >>

\* label_line that keeps boxes without extent
label_line_keeps_flat(classes, box) ==
    IF class_index(classes, box.classId) < 0 THEN <<>>
    ELSE IF ~box.numeric THEN <<>>
    ELSE << [class_id |-> class_index(classes, box.classId),
             center_x |-> clamp01((2 * box.x + box.w) * 5000),
             center_y |-> clamp01((2 * box.y + box.h) * 5000),
             width |-> clamp01(box.w * 10000),
             height |-> clamp01(box.h * 10000)] >>

\* The label line of one box, or <<>> when the box is skipped.
label_line(classes, box) ==
    IF class_index(classes, box.classId) < 0 THEN <<>>
    ELSE IF ~box.numeric THEN <<>>
    ELSE IF box.w <= 0 \/ box.h <= 0 THEN <<>>
    ELSE << [class_id |-> class_index(classes, box.classId),
             center_x |-> clamp01((2 * box.x + box.w) * 5000),
             center_y |-> clamp01((2 * box.y + box.h) * 5000),
             width |-> clamp01(box.w * 10000),
             height |-> clamp01(box.h * 10000)] >>

RECURSIVE label_lines(_, _)
label_lines(classes, boxes) ==
    IF boxes = <<>> THEN <<>>
    ELSE label_line(classes, Head(boxes)) \o label_lines(classes, Tail(boxes))

\* str.strip() on a label
RECURSIVE lstrip(_)
lstrip(label) ==
    IF label # <<>> /\ Head(label) = " " THEN lstrip(Tail(label)) ELSE label

RECURSIVE rstrip(_)
rstrip(label) ==
    IF label # <<>> /\ label[Len(label)] = " "
    THEN rstrip(SubSeq(label, 1, Len(label) - 1))
    ELSE label

strip(label) == rstrip(lstrip(label))

\* normalize_class_names that leaves blank labels out
normalize_class_names_drops_blank(classes) ==
    LET kept == SelectSeq(classes, LAMBDA cls : strip(cls.label) # <<>>) IN
    [i \in 1..Len(kept) |-> strip(kept[i].label)]

\* _normalize_class_names: `label or f"class_{index}"`
normalize_class_names(classes) ==
    [i \in 1..Len(classes) |->
        IF strip(classes[i].label) # <<>>
        THEN strip(classes[i].label)
        ELSE <<"class_">> \o ToStr(i - 1)]

\* _build_dataset_yaml: the lines that depend on the classes
build_dataset_yaml(names) ==
    [class_num |-> Len(names), class_list |-> names]

InitExport ==
    /\ InitRequests
    /\ InitSettingsIdle
    /\ InitPredictIdle
    /\ InitLoadIdle
    /\ InitParseIdle
    /\ dataset_slug \in {"train", "val"}
    /\ payload_classes \in ClassLists
    /\ images \in ListsUpTo(ImageInputs, MaxImages) \cup BoxedImages
    /\ next_image = 1
    /\ used_names = {}
    /\ archive = <<>>
    /\ response = "pending"
    /\ body = <<>>

\* _export_dataset_zip up to the image loop: the payload is validated.
export_begin(classes) ==
    /\ response = "pending"
    /\ response' = IF classes = <<>> \/ images = <<>> THEN "error400" ELSE "writing"
    /\ used_names' = {}
    /\ UNCHANGED <<requestVars, parseVars, settingsVars, predictVars, loadVars,
                   dataset_slug, payload_classes, images,
                   next_image, archive, body>>

\* export_image that returns what the buffer holds when an image is refused
export_image_partial(classes) ==
    /\ response = "writing"
    /\ next_image <= Len(images)
    /\ LET image == images[next_image]
           dataset_folder == dataset_slug
           fallback_ext == IF image.src = "jpeg" THEN <<".", "jpg">> ELSE <<".", "png">>
           filename == unique_filename(image.name, fallback_ext, used_names)
       IN
       IF image.src \in {"nocomma", "padding"}
       THEN /\ response' = "error400"
            /\ body' = archive
            /\ UNCHANGED <<used_names, archive, next_image>>
       ELSE /\ used_names' = used_names \cup {filename}
            /\ archive' = archive \o
                 << [path |-> <<dataset_folder, "images", filename>>,
                     content |-> <<image.src>>],
                    [path |-> <<dataset_folder, "labels",
                                path_stem(filename) \o <<".", "txt">>>>,
                     content |-> label_lines(classes, image.boxes)] >>
            /\ next_image' = next_image + 1
            /\ UNCHANGED <<response, body>>
    /\ UNCHANGED <<requestVars, parseVars, settingsVars, predictVars, loadVars,
                   dataset_slug, payload_classes, images>>

\* One pass of `for image in images:`.
export_image(classes) ==
    /\ response = "writing"
    /\ next_image <= Len(images)
    /\ LET image == images[next_image]
           dataset_folder == dataset_slug
           fallback_ext == IF image.src = "jpeg" THEN <<".", "jpg">> ELSE <<".", "png">>
           filename == unique_filename(image.name, fallback_ext, used_names)
       IN
       IF image.src \in {"nocomma", "padding"}
       THEN /\ response' = "error400"
            /\ UNCHANGED <<used_names, archive, next_image>>
       ELSE /\ used_names' = used_names \cup {filename}
            /\ archive' = archive \o
                 << [path |-> <<dataset_folder, "images", filename>>,
                     content |-> <<image.src>>],
                    [path |-> <<dataset_folder, "labels",
                                path_stem(filename) \o <<".", "txt">>>>,
                     content |-> label_lines(classes, image.boxes)] >>
            /\ next_image' = next_image + 1
            /\ UNCHANGED response
    /\ UNCHANGED <<requestVars, parseVars, settingsVars, predictVars, loadVars,
                   dataset_slug, payload_classes, images,
                   body>>

\* After the loop: dataset.yaml for train, then the zip is returned.
export_finish(classes) ==
    /\ response = "writing"
    /\ next_image > Len(images)
    /\ archive' = IF dataset_slug = "train"
                  THEN Append(archive,
                         [path |-> <<dataset_slug, "dataset.yaml">>,
                          content |-> build_dataset_yaml(normalize_class_names(classes))])
                  ELSE archive
    /\ response' = "zip"
    /\ body' = archive'
    /\ UNCHANGED <<requestVars, parseVars, settingsVars, predictVars, loadVars,
                   dataset_slug, payload_classes, images,
                   next_image, used_names>>

NextExport ==
    \/ export_begin(payload_classes)
    \/ export_image(payload_classes)
    \/ export_finish(payload_classes)

SpecExport == InitExport /\ [][NextExport]_vars

(***************************************************************************)
(* views._build_inference_settings: the settings of an inference request.  *)
(***************************************************************************)

\* Values of the img_size form field: absent, not a number, or an integer.
ImgSizeInputs == ((0 - 40)..100) \cup {640, 650} \cup (2040..2060)

PostValues ==
    {[kind |-> "absent", value |-> 0], [kind |-> "text", value |-> 0]}
    \cup {[kind |-> "int", value |-> v] : v \in ImgSizeInputs}

\* _parse_int: int(value), the default on TypeError or ValueError, then the clamp
parse_int(value, default, minimum, maximum) ==
    IF value.kind # "int" THEN default
    ELSE Max(minimum, Min(maximum, value.value))

\* The fields the InferenceSettings dataclass declares.
InferenceSettingsFields == {"img_size", "min_confidence", "min_iou", "max_bbox"}

\* InferenceSettings(**kwargs): the generated __init__ takes the declared
\* fields only and raises TypeError on any other keyword.
InferenceSettings(kwargs) ==
    IF DOMAIN kwargs \subseteq InferenceSettingsFields
    THEN [error |-> "none", img_size |-> kwargs.img_size]
    ELSE [error |-> "TypeError", img_size |-> 0]

\* _build_inference_settings (the other form fields absent: their defaults,
\* min_confidence and min_iou in hundredths)
build_inference_settings(post_img_size) ==
    LET number == parse_int(post_img_size, 640, 32, 2048)
        rounded == number - (number % 32)
        img_size == IF rounded < 32 THEN 32 ELSE rounded
    IN InferenceSettings([img_size |-> img_size, min_confidence |-> 25,
                          min_iou |-> 45, max_bbox |-> 300, num_workers |-> 4,
                          class_names |-> <<>>])

InitSettings ==
    /\ InitRequests
    /\ InitParseIdle
    /\ InitExportIdle
    /\ InitPredictIdle
    /\ InitLoadIdle
    /\ post_data \in PostValues
    /\ settings = NoSettings

\* run_inference: `settings = _build_inference_settings(request.POST)`
build_settings ==
    /\ settings.error = "pending"
    /\ settings' = build_inference_settings(post_data)
    /\ UNCHANGED <<requestVars, parseVars, exportVars, predictVars, loadVars,
                   post_data>>

NextSettings == build_settings

SpecSettings == InitSettings /\ [][NextSettings]_vars

(***************************************************************************)
(* YoloV9InferenceEngine._predict on one list of images.                   *)
(***************************************************************************)

MaxBatch == 3

\* ImagePayload: id and data, data being a picture Pillow reads or not.
PayloadInputs == {[id |-> i, data |-> d] : i \in {"a", "b"}, d \in {"ok", "bad"}}

\* _predict that leaves out a picture it cannot read and goes on
predict_batch_skips_unreadable(batch, ready) ==
    IF batch = <<>> THEN [error |-> "YoloInferenceError", results |-> <<>>]
    ELSE IF ~ready THEN [error |-> "Exception", results |-> <<>>]
    ELSE LET readable == SelectSeq(batch, LAMBDA payload : payload.data # "bad")
         IN [error |-> "none",
             results |-> [i \in 1..Len(readable) |-> readable[i].id]]

\* _predict without the test for an empty list
predict_batch_allows_empty(batch, ready) ==
    IF ~ready THEN [error |-> "Exception", results |-> <<>>]
    ELSE IF \E i \in 1..Len(batch) : batch[i].data = "bad"
    THEN [error |-> "ImageDecodeError", results |-> <<>>]
    ELSE [error |-> "none", results |-> [i \in 1..Len(batch) |-> batch[i].id]]

\* _predict: the empty list is refused first; an engine that was never
\* bootstrapped fails on its unset handles; the first picture that cannot be
\* read ends the call; otherwise one result per image, in order.
predict_batch(batch, ready) ==
    IF batch = <<>> THEN [error |-> "YoloInferenceError", results |-> <<>>]
    ELSE IF ~ready THEN [error |-> "Exception", results |-> <<>>]
    ELSE IF \E i \in 1..Len(batch) : batch[i].data = "bad"
    THEN [error |-> "ImageDecodeError", results |-> <<>>]
    ELSE [error |-> "none", results |-> [i \in 1..Len(batch) |-> batch[i].id]]

InitPredict ==
    /\ InitRequests
    /\ InitLoadIdle
    /\ InitParseIdle
    /\ InitExportIdle
    /\ InitSettingsIdle
    /\ payloads \in ListsUpTo(PayloadInputs, MaxBatch)
    /\ engine_ready \in BOOLEAN
    /\ predicted = NotPredicted

\* `self._predict(images, settings)`
predict_call ==
    /\ predicted.error = "pending"
    /\ predicted' = predict_batch(payloads, engine_ready)
    /\ UNCHANGED <<requestVars, parseVars, exportVars, settingsVars, loadVars,
                   payloads, engine_ready>>

NextPredict == predict_call

SpecPredict == InitPredict /\ [][NextPredict]_vars

(***************************************************************************)
(* YoloV9InferenceEngine._load_weights, called again and again on one      *)
(* bootstrapped engine.                                                    *)
(***************************************************************************)

MaxLoads == 3

\* Files handed to _load_weights and the names they come under.
LoadInputs == ModelBytes \cup {IntKeysCheckpoint}
Labels == {"uploaded.pt", "best.pt"}

\* The engine (number 1) after construction and a complete bootstrap.
InitLoad ==
    /\ ENGINE = 1
    /\ nEngines = 1
    /\ lock = [e \in EngineIds |-> 0]
    /\ bootstrapped = [e \in EngineIds |-> e = 1]
    /\ handles = [e \in EngineIds |-> e = 1]
    /\ cfg = [e \in EngineIds |-> e = 1]
    /\ device = [e \in EngineIds |-> e = 1]
    /\ model = [e \in EngineIds |-> IF e = 1 THEN FreshModel ELSE NoModel]
    /\ class_names = [e \in EngineIds |-> IF e = 1 THEN Taxonomy ELSE <<>>]
    /\ current_weight_hash = [e \in EngineIds |-> NoHash]
    /\ pc = [t \in Threads |-> "idle"]
    /\ eng = [t \in Threads |-> 0]
    /\ bytes = [t \in Threads |-> EmptyBytes]
    /\ outcome = [t \in Threads |-> "none"]
    /\ entry = [t \in Threads |-> NoEntry]
    /\ apply_ran = [t \in Threads |-> FALSE]
    /\ setups = 1
    /\ runs = 0
    /\ InitParseIdle
    /\ InitExportIdle
    /\ InitSettingsIdle
    /\ InitPredictIdle
    /\ InitLoadIdle

\* An error leaving _load_weights: its class, the label its message holds
\* ("" when it holds none) and whether it carries the exception that caused it.
Failure(kind, label, cause) == [kind |-> kind, label |-> label, cause |-> cause]

\* `self._load_weights(model_bytes, model_label)`
load_weights_call ==
    /\ load_calls < MaxLoads
    /\ load_calls' = load_calls + 1
    /\ \E b \in LoadInputs, label \in Labels :
        LET weight_hash == Hash(b)
            checkpoint == CheckpointOf(b)
            state_dict == normalize_state_dict(checkpoint)
            fits == {k \in DOMAIN state_dict :
                        \A j \in checkpoint.bad : StripPrefix(j) # k}
        IN
        /\ weight_bytes' = b
        /\ model_label' = label
        /\ IF b = EmptyBytes
           THEN /\ load_result' = Failure("ModelLoadError", "", FALSE)
                /\ UNCHANGED <<model, current_weight_hash>>
           ELSE IF cache_hit(current_weight_hash[1], weight_hash)
           THEN /\ load_result' = Failure("none", "", FALSE)
                /\ UNCHANGED <<model, current_weight_hash>>
           ELSE IF ~checkpoint.loads
           THEN /\ load_result' = Failure("ModelLoadError", label, TRUE)
                /\ UNCHANGED <<model, current_weight_hash>>
           ELSE IF normalize_fails(checkpoint)
           THEN /\ load_result' = Failure("AttributeError", "", FALSE)
                /\ UNCHANGED <<model, current_weight_hash>>
           ELSE IF checkpoint.bad # {}
           THEN \E applied \in SUBSET fits :
                /\ model' = [model EXCEPT
                               ![1] = load_state_dict(model[1], state_dict, applied)]
                /\ load_result' = Failure("ModelLoadError", "", TRUE)
                /\ UNCHANGED current_weight_hash
           ELSE /\ model' = [model EXCEPT
                               ![1] = load_state_dict(model[1], state_dict, fits)]
                /\ current_weight_hash' =
                       [current_weight_hash EXCEPT ![1] = weight_hash]
                /\ load_result' = Failure("none", "", FALSE)
    /\ UNCHANGED <<ENGINE, nEngines, lock, bootstrapped, handles, cfg, device,
                   class_names, pc, eng, bytes, outcome, entry, apply_ran, setups,
                   runs, parseVars, exportVars, settingsVars, predictVars>>

NextLoad == load_weights_call

SpecLoad == InitLoad /\ [][NextLoad]_vars

\* ------------------------------------------------------------------ claims
\* The handler is inside `with self._lock:` of run().
InRegion(t) == pc[t] \in {"ensure", "load", "predict", "release"}

\* The flat parameter map of upload b, as _load_weights hands it to the model.
StateDictOf(b) == normalize_state_dict(CheckpointOf(b))

\* C1: in every reachable state the live model's parameters are those of the
\* checkpoint whose hash is in the cache slot (a failed apply leaves the
\* parameters and the hash as they were).
C1_ModelMatchesCachedHash ==
    \A e \in EngineIds :
        (current_weight_hash[e] # NoHash) =>
            \E b \in Checkpoints :
                /\ Hash(b) = current_weight_hash[e]
                /\ \A k \in ParamKeys \cap DOMAIN StateDictOf(b) :
                       model[e][k] = StateDictOf(b)[k]

\* C2: no two requests are inside the bootstrap + weight-load + predict
\* region at the same time.
C2_MutualExclusion ==
    \A t, u \in Threads : (t # u) => ~(InRegion(t) /\ InRegion(u))

C4_SetupOnce == setups <= 1

\* C5: a failing ensureReady raises MissingDependency and leaves every field
\* of the engine as it was before the call.
C5_FailedEnsureChangesNothing ==
    [][\A t \in Threads :
          (pc[t] = "ensure" /\ pc'[t] = "release") =>
              /\ outcome'[t] = "MissingDependencyError"
              /\ handles'[eng[t]] = handles[eng[t]]
              /\ cfg'[eng[t]] = cfg[eng[t]]
              /\ device'[eng[t]] = device[eng[t]]
              /\ model'[eng[t]] = model[eng[t]]
              /\ class_names'[eng[t]] = class_names[eng[t]]
              /\ bootstrapped'[eng[t]] = bootstrapped[eng[t]]]_vars

PredictFailed(t) ==
    pc[t] = "release" /\ outcome[t] \in {"YoloInferenceError", "ImageDecodeError"}

\* C6 (as stated): after a run() that failed inside predict, the cached hash
\* and the weights are the ones in place before that run() was called.
C6_WeightsAsBeforeRun ==
    \A t \in Threads :
        PredictFailed(t) =>
            /\ current_weight_hash[eng[t]] = entry[t].hash
            /\ model[eng[t]] = entry[t].model

\* C6 (amended): predict changes neither the cached hash nor the weights, so
\* after a run() that failed inside predict they are the ones that run's own
\* loadWeights left: the cached hash is the hash of that run's checkpoint.
C6_PredictLeavesWeights ==
    [][\A t \in Threads :
          (pc[t] = "predict") =>
              /\ current_weight_hash'[eng[t]] = current_weight_hash[eng[t]]
              /\ model'[eng[t]] = model[eng[t]]
              /\ current_weight_hash'[eng[t]] = Hash(bytes[t])]_vars

\* C6 witness: a run that swapped the model has failed decoding an image.
C6_Witness ==
    \E t \in Threads :
        /\ pc[t] = "release"
        /\ outcome[t] = "ImageDecodeError"
        /\ entry[t].hash \notin {NoHash, Hash(bytes[t])}
        /\ current_weight_hash[eng[t]] = Hash(bytes[t])

\* C7 (as stated): the deserialize-and-apply step runs in a loadWeights call
\* iff the hash of its bytes differs from the cached hash at that moment.
C7_ApplyIffHashDiffers ==
    [][\A t \in Threads :
          (pc[t] = "load" /\ pc'[t] # "load") =>
              (apply_ran'[t] <=> (Hash(bytes[t]) # current_weight_hash[eng[t]]))]_vars

\* C7 (amended): for non-empty bytes the deserialize-and-apply step runs iff
\* the hash of the bytes differs from the cached hash; on a hash match the
\* call returns without touching the model or the cached hash.
C7_ApplyIffHashDiffersNonEmpty ==
    [][\A t \in Threads :
          (pc[t] = "load" /\ pc'[t] # "load" /\ bytes[t] # EmptyBytes) =>
              /\ apply_ran'[t] <=> (Hash(bytes[t]) # current_weight_hash[eng[t]])
              /\ (Hash(bytes[t]) = current_weight_hash[eng[t]]) =>
                     /\ pc'[t] = "predict"
                     /\ model' = model
                     /\ current_weight_hash' = current_weight_hash]_vars

\* C7 witness: a second call with the bytes of the cached checkpoint has
\* returned without running the step.
C7_Witness ==
    \E t \in Threads :
        /\ pc[t] = "predict"
        /\ ~apply_ran[t]
        /\ bytes[t] # EmptyBytes
        /\ entry[t].hash = Hash(bytes[t])

\* C8: every returned detection of an image of size width x height has x1
\* and x2 in [0, width], y1 and y2 in [0, height], and width, height >= 0.
C8_BboxWithinImage ==
    \A i \in 1..Len(parsed.detections) :
        LET b == parsed.detections[i].bbox IN
        /\ 0 <= b.x1 /\ b.x1 <= image_size[1]
        /\ 0 <= b.x2 /\ b.x2 <= image_size[1]
        /\ 0 <= b.y1 /\ b.y1 <= image_size[2]
        /\ 0 <= b.y2 /\ b.y2 <= image_size[2]
        /\ b.width >= 0 /\ b.height >= 0

\* Entries of the archive under <dataset>/images/ and <dataset>/labels/, in
\* the order they were written.
ImageEntries == SelectSeq(archive, LAMBDA en : en.path[2] = "images")
LabelEntries == SelectSeq(archive, LAMBDA en : en.path[2] = "labels")

\* C9: every exported image has exactly one label entry, at
\* <dataset>/labels/<stem>.txt, and no two images share a label path.
C9_OneLabelPerImage ==
    /\ Len(LabelEntries) = Len(ImageEntries)
    /\ \A i \in 1..Len(ImageEntries) :
           LabelEntries[i].path =
               <<dataset_slug, "labels",
                 path_stem(ImageEntries[i].path[3]) \o <<".", "txt">>>>
    /\ \A i, j \in 1..Len(LabelEntries) :
           (i # j) => LabelEntries[i].path # LabelEntries[j].path

\* The name image i asks for: stem and suffix of its name, with the fallbacks.
WantedStem(i) ==
    LET path == IF images[i].name = <<>> THEN <<"image">> ELSE images[i].name
    IN path_stem(path)

WantedSuffix(i) ==
    LET path == IF images[i].name = <<>> THEN <<"image">> ELSE images[i].name
    IN IF path_suffix(path) # <<>> THEN path_suffix(path)
       ELSE IF images[i].src = "jpeg" THEN <<".", "jpg">> ELSE <<".", "png">>

Numbered(i, n) == WantedStem(i) \o <<"_">> \o ToStr(n) \o WantedSuffix(i)

WrittenBefore(i) == {ImageEntries[j].path[3] : j \in 1..(i - 1)}

\* C10: the image file names of one export are pairwise distinct; an image
\* whose name is unused keeps it, and one whose name is used gets _<n> before
\* the extension with the smallest n >= 1 that is still unused.
C10_DistinctImageNames ==
    /\ \A i, j \in 1..Len(ImageEntries) :
           (i # j) => ImageEntries[i].path[3] # ImageEntries[j].path[3]
    /\ \A i \in 1..Len(ImageEntries) :
           LET written == ImageEntries[i].path[3]
               wanted == WantedStem(i) \o WantedSuffix(i)
           IN IF wanted \notin WrittenBefore(i)
              THEN written = wanted
              ELSE \E n \in 1..i :
                     /\ written = Numbered(i, n)
                     /\ written \notin WrittenBefore(i)
                     /\ \A m \in 1..(n - 1) : Numbered(i, m) \in WrittenBefore(i)

\* C10 witness: a finished export wrote two images named cat.png as cat.png
\* and cat_1.png, and a third image past an already used _1 name.
C10_Witness ==
    /\ response = "zip"
    /\ \E i, j \in 1..Len(ImageEntries) :
           /\ i < j
           /\ images[i].name = <<"cat", ".", "png">>
           /\ images[j].name = <<"cat", ".", "png">>
           /\ ImageEntries[i].path[3] = <<"cat", ".", "png">>
           /\ ImageEntries[j].path[3] = <<"cat", "_", "1", ".", "png">>
    /\ \E k \in 1..Len(ImageEntries) :
           ImageEntries[k].path[3] = <<"cat", "_", "2", ".", "png">>

\* A box the export has to write: its class is one of the payload's classes
\* and it has extent.
KnownClass(box) == \E k \in 1..Len(payload_classes) : payload_classes[k].id = box.classId

ValidBox(box) == box.numeric /\ KnownClass(box) /\ box.w > 0 /\ box.h > 0

\* The zero-based position of the box's class in the classes list.
ClassPosition(box) ==
    (CHOOSE k \in 1..Len(payload_classes) : payload_classes[k].id = box.classId) - 1

\* v percent as a fraction in millionths, held to [0, 1].
Fraction01(halfPercents) ==
    IF halfPercents < 0 THEN 0
    ELSE IF halfPercents > 200 THEN 1000000
    ELSE halfPercents * 5000

\* The line the export has to write for a valid box.
ExpectedLine(box) ==
    [class_id |-> ClassPosition(box),
     center_x |-> Fraction01(2 * box.x + box.w),
     center_y |-> Fraction01(2 * box.y + box.h),
     width |-> Fraction01(2 * box.w),
     height |-> Fraction01(2 * box.h)]

ExpectedLines(boxes) ==
    LET kept == SelectSeq(boxes, ValidBox)
    IN [k \in 1..Len(kept) |-> ExpectedLine(kept[k])]

\* C11: the label file of every exported image holds, in box order, exactly
\* one line per box with a known class and w > 0, h > 0, and that line is
\* <classIndex> <centerX> <centerY> <width> <height> with classIndex the
\* zero-based position of the class, centerX = clamp01((x + w/2)/100),
\* centerY = clamp01((y + h/2)/100), width = clamp01(w/100) and
\* height = clamp01(h/100).
C11_LabelLineFormula ==
    \A i \in 1..Len(LabelEntries) :
        LabelEntries[i].content = ExpectedLines(images[i].boxes)

\* C11 witness: a finished export wrote 0 0.25 0.40 0.30 0.40 for the box
\* x=10, y=20, w=30, h=40 of the first class, after the line of a box of the
\* second class in the same image.
C11_Witness ==
    /\ response = "zip"
    /\ \E i \in 1..Len(LabelEntries) :
           /\ Len(images[i].boxes) = 2
           /\ images[i].boxes[1].classId = "c2"
           /\ images[i].boxes[2] = GoodBox
           /\ Len(LabelEntries[i].content) = 2
           /\ LabelEntries[i].content[1].class_id = 1
           /\ LabelEntries[i].content[2] =
                  [class_id |-> 0, center_x |-> 250000, center_y |-> 400000,
                   width |-> 300000, height |-> 400000]

LinesOf(i) == {LabelEntries[i].content[k] : k \in 1..Len(LabelEntries[i].content)}

\* C12: centerX, centerY, width and height of every written label line lie
\* in [0, 1], whatever x and y the box had.
C12_FieldsWithinUnit ==
    \A i \in 1..Len(LabelEntries) : \A line \in LinesOf(i) :
        /\ line.center_x \in 0..1000000
        /\ line.center_y \in 0..1000000
        /\ line.width \in 0..1000000
        /\ line.height \in 0..1000000

\* C12 witness: a finished export wrote a line for a box left of and above the
\* image (x, y negative, centre below 0 before the clamp) and a line for a box
\* with x above 100 and w above 100.
C12_Witness ==
    /\ response = "zip"
    /\ \E i \in 1..Len(LabelEntries) :
           /\ Len(images[i].boxes) = 1
           /\ ValidBox(images[i].boxes[1])
           /\ Len(LabelEntries[i].content) = 1
           /\ LET box == images[i].boxes[1]
                  line == LabelEntries[i].content[1]
              IN \/ /\ 2 * box.x + box.w < 0
                    /\ 2 * box.y + box.h < 0
                    /\ line.center_x = 0
                    /\ line.center_y = 0
                 \/ /\ box.x > 100
                    /\ box.w > 100
                    /\ line.center_x = 1000000
                    /\ line.width = 1000000

\* The reasons for which the export refuses a payload.
RefusedPayload ==
    \/ payload_classes = <<>>
    \/ images = <<>>
    \/ \E i \in 1..Len(images) : images[i].src \in {"nocomma", "padding"}

\* C13: a box with w <= 0 or h <= 0, or of a class that is not in the classes
\* list, adds no line and does not make the export fail: each label file has
\* the lines of the image's other boxes, the export is refused only for an
\* empty payload or an image without usable data, and a finished export has
\* every image.
C13_SkippedBoxesAreHarmless ==
    /\ \A i \in 1..Len(LabelEntries) :
           /\ Len(LabelEntries[i].content) = Len(SelectSeq(images[i].boxes, ValidBox))
           /\ LabelEntries[i].content = ExpectedLines(SelectSeq(images[i].boxes, ValidBox))
    /\ (response = "error400") => RefusedPayload
    /\ (response = "zip") => Len(ImageEntries) = Len(images)

\* C13 witness: a finished export with an image whose box without width was
\* left out beside a written one, and an image whose only box, of an unknown
\* class or without extent, left an empty label file.
C13_Witness ==
    /\ response = "zip"
    /\ \E i \in 1..Len(LabelEntries) :
           \/ /\ Len(images[i].boxes) = 2
              /\ images[i].boxes[1].w <= 0
              /\ images[i].boxes[1].numeric
              /\ images[i].boxes[1].classId = "c1"
              /\ Len(LabelEntries[i].content) = 1
           \/ /\ Len(images[i].boxes) = 2
              /\ images[i].boxes[2].classId = "zz"
              /\ Len(LabelEntries[i].content) = 1

\* What a complete archive holds: an image entry and a label entry for every
\* input image, and the descriptor exactly for train.
CompleteArchive(entries) ==
    LET imgs == SelectSeq(entries, LAMBDA en : en.path[2] = "images")
        lbls == SelectSeq(entries, LAMBDA en : en.path[2] = "labels")
        yaml == SelectSeq(entries, LAMBDA en : en.path[2] = "dataset.yaml")
    IN /\ Len(imgs) = Len(images)
       /\ Len(lbls) = Len(images)
       /\ Len(yaml) = IF dataset_slug = "train" THEN 1 ELSE 0
       /\ Len(entries) = Len(imgs) + Len(lbls) + Len(yaml)

\* C14: an export returns a complete archive or an error without archive
\* content; what was written for earlier images is never returned with an
\* error.
C14_AllOrNothing ==
    /\ (response = "zip") => CompleteArchive(body)
    /\ (response # "zip") => body = <<>>

\* C14 witness: the export was refused at a later image, after the entries of
\* an earlier image had been written to the buffer.
C14_Witness ==
    /\ response = "error400"
    /\ next_image > 1
    /\ archive # <<>>
    /\ body = <<>>

YamlEntries == SelectSeq(archive, LAMBDA en : en.path[2] = "dataset.yaml")

\* C15 as stated: a finished export holds <dataset>/dataset.yaml iff the
\* dataset is train, with class_num the number of classes and the class list
\* equal to the labels of the classes, in order.
C15_YamlListsLabels ==
    (response = "zip") =>
        /\ (Len(YamlEntries) = 1) <=> (dataset_slug = "train")
        /\ \A k \in 1..Len(YamlEntries) :
               /\ YamlEntries[k].path = <<dataset_slug, "dataset.yaml">>
               /\ YamlEntries[k].content.class_num = Len(payload_classes)
               /\ YamlEntries[k].content.class_list =
                      [i \in 1..Len(payload_classes) |-> payload_classes[i].label]

\* C15, amended: a finished export holds <dataset>/dataset.yaml iff the
\* dataset is train, with class_num the number of classes and the class list
\* holding, in order, each label with surrounding white space removed, or
\* class_<index> (zero-based) for a label that is then empty.
C15_YamlListsNormalizedLabels ==
    (response = "zip") =>
        /\ (Len(YamlEntries) = 1) <=> (dataset_slug = "train")
        /\ Len(YamlEntries) <= 1
        /\ \A k \in 1..Len(YamlEntries) :
               /\ YamlEntries[k].path = <<dataset_slug, "dataset.yaml">>
               /\ YamlEntries[k].content.class_num = Len(payload_classes)
               /\ Len(YamlEntries[k].content.class_list) = Len(payload_classes)
               /\ \A i \in 1..Len(payload_classes) :
                      LET label == payload_classes[i].label
                          listed == YamlEntries[k].content.class_list[i]
                      IN IF \A j \in 1..Len(label) : label[j] = " "
                         THEN listed = <<"class_">> \o ToStr(i - 1)
                         ELSE /\ listed # <<>>
                              /\ Head(listed) # " "
                              /\ listed[Len(listed)] # " "
                              /\ \E a, b \in 0..Len(label) :
                                     /\ a + b < Len(label)
                                     /\ listed = SubSeq(label, a + 1, Len(label) - b)
                                     /\ \A j \in 1..a : label[j] = " "
                                     /\ \A j \in (Len(label) - b + 1)..Len(label) :
                                            label[j] = " "

\* C15 witness: a finished train export whose classes had a padded label, an
\* empty label and a blank label, listed as dog, class_1 and class_2.
C15_Witness ==
    /\ response = "zip"
    /\ dataset_slug = "train"
    /\ Len(payload_classes) = 3
    /\ Len(YamlEntries) = 1
    /\ YamlEntries[1].content.class_num = 3
    /\ YamlEntries[1].content.class_list =
           << <<"dog">>, <<"class_", "1">>, <<"class_", "2">> >>

\* What the settings have to hold for the img_size the caller sent.
ExpectedImgSize(value) ==
    IF value.kind # "int" THEN 640
    ELSE LET clamped == IF value.value < 32 THEN 32
                        ELSE IF value.value > 2048 THEN 2048 ELSE value.value
         IN CHOOSE n \in (clamped - 31)..clamped : n % 32 = 0

\* C16: for every img_size the caller sends, building the settings succeeds
\* and their img_size is a multiple of 32 in [32, 2048]: the input clamped to
\* [32, 2048] and rounded down to a multiple of 32, or 640 for an absent or
\* unparsable value.
C16_SettingsBuilt ==
    (settings.error # "pending") =>
        /\ settings.error = "none"
        /\ settings.img_size = ExpectedImgSize(post_data)
        /\ settings.img_size % 32 = 0
        /\ settings.img_size \in 32..2048

\* C17: the answer to an inference request goes by the kind of the error:
\* MissingDependency gives 503, ImageDecode and ModelLoad give 400 with the
\* error's message, and every other failure, a plain pipeline error included,
\* gives 500 with the fixed text and nothing of the exception.
C17_ResponseByErrorKind ==
    \A t \in Threads :
        (pc[t] = "release" /\ outcome[t] \notin {"none", "ok"}) =>
            LET answer == http_response(outcome[t]) IN
            CASE outcome[t] = "MissingDependencyError" -> answer.status = 503
              [] outcome[t] \in {"ImageDecodeError", "ModelLoadError"} ->
                     answer.status = 400 /\ answer.error = "str(exc)"
              [] OTHER -> answer.status = 500 /\ answer.error = "fixed"

\* The names the caller asked for: the override list when one was sent, the
\* engine's own list otherwise.
DisplayNames == IF names_override # <<>> THEN names_override ELSE Taxonomy

\* C18: with classNames sent by the caller, the className of every returned
\* detection is the entry of that list at the detection's classId; without
\* them it is the entry of the engine's own list.
C18_OverrideNamesDetections ==
    (parsed.error = "none") =>
        \A i \in 1..Len(parsed.detections) :
            LET det == parsed.detections[i] IN
            (det.class_id \in 0..(Len(DisplayNames) - 1)) =>
                det.class_name = <<DisplayNames[det.class_id + 1]>>

\* C19: _predict with an empty image list raises the "no images" pipeline
\* error whatever state the engine is in, and no call returns a result with
\* an empty results list.
C19_EmptyListRaises ==
    (predicted.error # "pending") =>
        /\ (payloads = <<>>) =>
               (predicted.error = "YoloInferenceError" /\ predicted.results = <<>>)
        /\ (predicted.error = "none") => predicted.results # <<>>

\* C19 witness: the empty list was refused by an engine that had not been
\* bootstrapped.
C19_Witness ==
    /\ payloads = <<>>
    /\ ~engine_ready
    /\ predicted.error = "YoloInferenceError"

\* C20: however _load_weights fails (empty bytes, a file that cannot be
\* deserialized, a checkpoint that cannot be normalized, parameters that
\* cannot be applied), the error is a ModelLoadError that carries the caller's
\* label and the underlying cause.
C20_FailuresAreModelLoadErrors ==
    (load_result.kind \notin {"pending", "none"}) =>
        /\ load_result.kind = "ModelLoadError"
        /\ load_result.label = model_label
        /\ load_result.cause

\* The name the taxonomy gives a class id, or the synthesized one.
ResolvedName(cls_id) ==
    IF cls_id >= 0 /\ cls_id < Len(Taxonomy)
    THEN <<Taxonomy[cls_id + 1]>>
    ELSE <<"class_", cls_id>>

\* C21: every detection's className is taxonomy[classId] for a classId inside
\* the taxonomy and class_<classId> for any other classId, negative ones
\* included, and resolving the names never fails.
C21_ClassNameResolved ==
    (parsed.error # "pending") =>
        /\ parsed.error = "none"
        /\ \A i \in 1..Len(parsed.detections) :
               parsed.detections[i].class_name =
                   ResolvedName(parsed.detections[i].class_id)

\* C22: a request holds an engine's lock only while it is inside run(), so
\* every run(), returning or raising at bootstrap, weight load or predict,
\* has released the lock when it ends; and with fair scheduling every request
\* waiting for the lock gets into run() and ends.
C22_LockReleasedAndProgress ==
    /\ [](\A t \in Threads : \A e \in EngineIds : (lock[e] = t) => InRegion(t))
    /\ \A t \in Threads : (pc[t] = "acquire") ~> (pc[t] = "release")
    /\ \A t \in Threads : (pc[t] = "release") ~> (pc[t] = "idle")

\* C22 witness: a request waits for the lock of the engine whose owner's run()
\* has just raised.
C22_Witness ==
    \E t, u \in Threads :
        /\ t # u
        /\ pc[t] = "release"
        /\ outcome[t] \notin {"none", "ok"}
        /\ lock[eng[t]] = t
        /\ pc[u] = "acquire"
        /\ eng[u] = eng[t]

\* C23: a successful call returns one result per input image, in input
\* order, results[i] carrying the id of images[i]; when an image of the batch
\* cannot be read the call raises and returns no result, not even those of
\* the images before it.
C23_OneResultPerImage ==
    (predicted.error # "pending") =>
        /\ (predicted.error = "none") =>
               /\ Len(predicted.results) = Len(payloads)
               /\ \A i \in 1..Len(payloads) : predicted.results[i] = payloads[i].id
        /\ (\E i \in 1..Len(payloads) : payloads[i].data = "bad") =>
               /\ predicted.error # "none"
               /\ predicted.results = <<>>

\* C23 witness: a bootstrapped engine read two images with different ids and
\* failed on the third.
C23_Witness ==
    /\ engine_ready
    /\ Len(payloads) = 3
    /\ payloads[1].data = "ok"
    /\ payloads[2].data = "ok"
    /\ payloads[1].id # payloads[2].id
    /\ payloads[3].data = "bad"
    /\ predicted.error = "ImageDecodeError"
    /\ predicted.results = <<>>

====
